---- MODULE Spec2Model ----
(***************************************************************************)
(* Model of the btc-hourly-export scripts:                                 *)
(*   get_btc_hourly_for_grid_research.py  (CoinGecko with Binance fallback)*)
(*   get_btc_hourly_coingecko.py          (CoinGecko only)                 *)
(*   get_btcusdt_hourly.py                (Binance only)                   *)
(*                                                                         *)
(* Datetimes (start_dt, end_dt, chunk boundaries) are whole hours counted  *)
(* from an hour-aligned origin: every datetime the scripts build is        *)
(* aligned to the hour.  CoinGecko sample timestamps are milliseconds.     *)
(* Binance millisecond timestamps are kept as [h |-> hours, ms |-> rest]   *)
(* so that a window longer than 90 days stays inside TLC's integers.       *)
(***************************************************************************)
EXTENDS Integers, Sequences, FiniteSets, TLC

VARIABLES
    script,      \* which program runs: "grid", "coingecko", "binance", "fetch", "chunks", "aggregate"
    pc,          \* control location inside it
    start_dt,    \* window start (hours)
    end_dt,      \* window end (hours)
    days_chunk,  \* chunks(): days_chunk argument
    cur,         \* chunks(): cur
    yielded,     \* chunks(): the pairs yielded so far
    fetcher,     \* which request function is active
    attempt,     \* retry loop: attempt
    requests,    \* HTTP requests sent by the current fetch
    sleeps,      \* backoff sleeps (seconds) of the current fetch, in order
    last,        \* the last attempt of the current fetch: [k, resp, slept]
    all_prices,  \* CoinGecko price samples collected (rows in the CoinGecko-only script)
    all_vols,    \* CoinGecko volume samples collected
    df_cg,       \* bars built from the CoinGecko samples
    ratio,       \* flat_ohlc_ratio(df_cg) as [flat, n]
    threshold,   \* cg_fallback_threshold as [num, den]
    start_ms,    \* Binance cursor
    rows,        \* Binance rows collected
    pages,       \* Binance pages requested so far
    out,         \* the output file: NoFile or [provider, rows]
    writes,      \* how many times the output file was written
    result,      \* "running", "returned" or "raised"
    err,         \* what was raised, and where
    cg_outcome,  \* how the CoinGecko attempt of the fallback script ended
    months,      \* main(): months
    now,         \* datetime.now(timezone.utc) as [y, m, d, h, mi]
    chunk_days,  \* main(): chunk_days (--chunk-days)
    delay,       \* the delay between chunk requests, in milliseconds
    window,      \* the planned window as datetimes: [start, end]
    sent,        \* the request the current fetch sent last
    naps         \* the time.sleep(delay_between) calls of the provider attempt, in order

chunkVars == <<start_dt, end_dt, days_chunk, cur, yielded>>
planVars  == <<months, now, chunk_days, delay, window>>
fetchVars == <<fetcher, attempt, requests, sleeps, last, sent>>
cgVars    == <<all_prices, all_vols, df_cg, ratio, threshold, cg_outcome>>
bnVars    == <<start_ms, rows, pages>>
endVars   == <<out, writes, result, err>>
vars      == <<script, pc, planVars, naps, chunkVars, fetchVars, cgVars, bnVars, endVars>>

(***************************************************************************)
(* Units and program constants                                             *)
(***************************************************************************)
HoursPerDay == 24
SecPerHour == 3600
MsPerSec == 1000
MsPerHour == 3600000
MAX_DAYS_PER_REQUEST == 90
RETRIES == 6
DEFAULT_DELAY_MS == 250
SLEEP_BETWEEN_MS == 350
MonthsPerYear == 12

Min(a, b) == IF a <= b THEN a ELSE b
Max(a, b) == IF a >= b THEN a ELSE b

RECURSIVE Pow(_, _)
Pow(b, n) == IF n = 0 THEN 1 ELSE b * Pow(b, n - 1)

CeilDiv(a, b) == (a + b - 1) \div b

NoFile == [provider |-> "none", rows |-> <<>>]
NoLast == [k |-> 0, kind |-> "none", status |-> 0, slept |-> 0]
NoRatio == [flat |-> 0, n |-> 0]
NoMs == [h |-> 0, ms |-> 0]
NoNow == [y |-> 0, m |-> 0, d |-> 0, h |-> 0, mi |-> 0]
NoWindow == [start |-> NoNow, end |-> NoNow]
NoRequest ==
    [api |-> "none", coin |-> "", params |-> {}, vs_currency |-> "", from |-> 0, to |-> 0,
     startTime |-> NoMs]

(***************************************************************************)
(* chunks(start_dt, end_dt, days_chunk)                                    *)
(***************************************************************************)
\* the loop test `while cur < end_dt`
ChunkHasNext == cur < end_dt

\* a plausible slip: the chunk end is not clipped to end_dt
ChunkNxtUnclipped == cur + HoursPerDay * days_chunk

\* nxt = min(end_dt, cur + timedelta(days=days_chunk))
ChunkNxt == Min(end_dt, cur + HoursPerDay * days_chunk)

\* one turn of the generator: yield (cur, nxt); cur = nxt
ChunkYield ==
    /\ script = "chunks"
    /\ pc = "chunks"
    /\ ChunkHasNext
    /\ yielded' = Append(yielded, <<cur, ChunkNxt>>)
    /\ cur' = ChunkNxt
    /\ UNCHANGED <<script, planVars, naps, pc, start_dt, end_dt, days_chunk>>
    /\ UNCHANGED <<fetchVars, cgVars, bnVars, endVars>>

\* the loop test fails: the generator is exhausted
ChunkStop ==
    /\ script = "chunks"
    /\ pc = "chunks"
    /\ ~ChunkHasNext
    /\ pc' = "done"
    /\ UNCHANGED <<script, planVars, naps, chunkVars, fetchVars, cgVars, bnVars, endVars>>

(***************************************************************************)
(* The request functions: fetch_range, fetch_coingecko_range, fetch_chunk  *)
(***************************************************************************)
\* what one requests.get can come back with: a transport error (no HTTP
\* response) or an HTTP response with a status code
Statuses == {200, 202, 400, 404, 418, 429, 500, 502, 503, 504}
Responses ==
    {[kind |-> "neterr", status |-> 0]} \cup {[kind |-> "http", status |-> s] : s \in Statuses}

\* Response.raise_for_status(): HTTPError for a 4xx or 5xx status
RaisesForStatus(s) == 400 <= s /\ s < 600

\* the statuses the CoinGecko fetchers test for: `r.status_code in (429, 502, 503, 504)`
CgRetryStatus(s) == s \in {429, 502, 503, 504}

\* the statuses fetch_chunk backs off on:
\* `r.status_code in (429, 418) or 500 <= r.status_code < 600`
BnRetryStatus(s) == s \in {429, 418} \/ (500 <= s /\ s < 600)

\* a plausible slip: the backoff grows linearly
BackoffLinear(k) == 2 * k

\* time.sleep(backoff ** attempt), backoff = 2
Backoff(k) == Pow(2, k)

\* What one turn of the retry loop does with the response r:
\*   "return"  return r.json()
\*   "sleep"   time.sleep(2 ** attempt), then the next turn
\*   "nosleep" the next turn at once
\*   "raise"   the exception leaves the function
\* fetch_range and fetch_coingecko_range: 200 returns; 429/502/503/504 sleep
\* and continue; otherwise raise_for_status(), whose HTTPError the function's
\* own except clause catches (it sleeps); a status below 400 other than 200
\* raises nothing and the loop goes on.  A transport error is caught too.
\* fetch_chunk: raise_for_status() first; its HTTPError sleeps for 429, 418
\* and 5xx and is re-raised otherwise; a transport error sleeps.
AttemptOutcome(f, r) ==
    IF f = "fetch_chunk"
    THEN IF r.kind = "neterr" THEN "sleep"
         ELSE IF RaisesForStatus(r.status)
              THEN (IF BnRetryStatus(r.status) THEN "sleep" ELSE "raise")
              ELSE "return"
    ELSE IF r.kind = "neterr" THEN "sleep"
         ELSE IF r.status = 200 THEN "return"
         ELSE IF CgRetryStatus(r.status) THEN "sleep"
         ELSE IF RaisesForStatus(r.status) THEN "sleep"
         ELSE "nosleep"

\* to_unix(dt): int(dt.replace(tzinfo=timezone.utc).timestamp()), in seconds
ToUnix(dt) == dt * SecPerHour

\* the chunk (s, e) the chunk loop is at
CurChunk == IF yielded = <<>> THEN <<start_dt, end_dt>> ELSE yielded[Len(yielded)]

\* the instrument in COINGECKO_RANGE_URL: .../coins/<instrument>/market_chart/range
\* get_btc_hourly_coingecko.py has "solana" there, the fallback script "bitcoin"
CoinOfUrl(f) == IF f = "fetch_range" THEN "solana" ELSE "bitcoin"

\* the request requests.get sends: fetch_chunk sends symbol, interval,
\* startTime and limit to the klines endpoint; fetch_range and
\* fetch_coingecko_range send vs_currency, from and to
RequestOf(f) ==
    IF f = "fetch_chunk"
    THEN [api |-> "binance", coin |-> "BTCUSDT",
          params |-> {"symbol", "interval", "startTime", "limit"},
          vs_currency |-> "", from |-> 0, to |-> 0, startTime |-> start_ms]
    ELSE [api |-> "coingecko", coin |-> CoinOfUrl(f),
          params |-> {"vs_currency", "from", "to"},
          vs_currency |-> "usd", from |-> ToUnix(CurChunk[1]), to |-> ToUnix(CurChunk[2]),
          startTime |-> NoMs]

\* the request of fetch_binance_klines: symbol, interval, startTime, endTime, limit
GridBinanceRequest ==
    [api |-> "binance", coin |-> "BTCUSDT",
     params |-> {"symbol", "interval", "startTime", "endTime", "limit"},
     vs_currency |-> "", from |-> 0, to |-> 0, startTime |-> start_ms]

\* a plausible slip: the delay between chunks is left out
PoliteSleepSkipped(n) == n

\* time.sleep(delay_between) after a chunk
PoliteSleep(n) == Append(n, delay)

\* the scripts a retrying fetch runs in
FetchScripts == {"fetch", "grid", "coingecko", "binance"}

\* `for attempt in range(retries)`: one request and what follows it
FetchAttempt ==
    /\ script \in FetchScripts
    /\ pc = "fetch"
    /\ attempt < RETRIES
    /\ \E r \in Responses :
          LET o == AttemptOutcome(fetcher, r)
              slept == IF o = "sleep" THEN Backoff(attempt) ELSE 0
          IN  /\ requests' = requests + 1
              /\ last' = [k |-> attempt, kind |-> r.kind, status |-> r.status, slept |-> slept]
              /\ sleeps' = IF o = "sleep" THEN Append(sleeps, slept) ELSE sleeps
              /\ attempt' = IF o \in {"sleep", "nosleep"} THEN attempt + 1 ELSE attempt
              /\ pc' = CASE o = "return" -> "fetched"
                         [] o = "raise" -> "fetch_raised"
                         [] OTHER -> "fetch"
              /\ err' = IF o = "raise" THEN "HTTPError" ELSE err
    /\ sent' = RequestOf(fetcher)
    /\ UNCHANGED <<script, planVars, naps, fetcher, chunkVars, cgVars, bnVars, out, writes, result>>

\* the loop ran out: `raise RuntimeError(...)`
FetchExhausted ==
    /\ script \in FetchScripts
    /\ pc = "fetch"
    /\ attempt >= RETRIES
    /\ pc' = "fetch_raised"
    /\ err' = "RuntimeError: retries"
    /\ UNCHANGED <<script, planVars, naps, chunkVars, fetchVars, cgVars, bnVars, out, writes, result>>

(***************************************************************************)
(* Deduplication (fetch_via_coingecko) and build_ohlcv_from_samples        *)
(* A sample is [ts |-> milliseconds, v |-> value].                         *)
(***************************************************************************)
RECURSIVE SortedSeq(_)
\* sorted(...) of a set of integers
SortedSeq(S) ==
    IF S = {} THEN <<>>
    ELSE LET m == CHOOSE x \in S : \A y \in S : x <= y
         IN  <<m>> \o SortedSeq(S \ {m})

\* a plausible slip: a timestamp already in the map is not overwritten
MapOfFirst(samples) ==
    [k \in {samples[i].ts : i \in DOMAIN samples} |->
        LET j == CHOOSE i \in DOMAIN samples :
                    /\ samples[i].ts = k
                    /\ \A i2 \in DOMAIN samples : samples[i2].ts = k => i <= i2
        IN  samples[j].v]

\* price_map = {}; for ts, price in all_prices: price_map[ts] = price
\* the value kept for a key is the one written last
MapOf(samples) ==
    [k \in {samples[i].ts : i \in DOMAIN samples} |->
        LET j == CHOOSE i \in DOMAIN samples :
                    /\ samples[i].ts = k
                    /\ \A i2 \in DOMAIN samples : samples[i2].ts = k => i2 <= i
        IN  samples[j].v]

\* prices_unique = sorted([(k, price_map[k]) for k in price_map.keys()])
DedupSorted(samples) ==
    LET m == MapOf(samples)
        ks == SortedSeq(DOMAIN m)
    IN  [i \in 1..Len(ks) |-> [ts |-> ks[i], v |-> m[ks[i]]]]

\* pd.to_datetime(df["time_ms"] // 1000, unit="s", utc=True), as seconds
SecOf(ts) == ts \div MsPerSec

\* the hourly bin resample("h") puts a second in
HourOf(sec) == sec \div SecPerHour

\* the index of dfp / dfv: one row per sample, keyed by its second
Indexed(samples) == [i \in DOMAIN samples |-> [sec |-> SecOf(samples[i].ts), v |-> samples[i].v]]

\* the rows of the outer join for one key: every price row paired with every
\* volume row of that second; a side without the key gives NaN (has = FALSE
\* for the price, and 0 for the volume once fillna(0) has run)
JoinKey(P, V, k) ==
    LET Pk == SelectSeq(P, LAMBDA r : r.sec = k)
        Vk == SelectSeq(V, LAMBDA r : r.sec = k)
    IN  IF Len(Pk) > 0 /\ Len(Vk) > 0
        THEN [i \in 1..(Len(Pk) * Len(Vk)) |->
                [sec |-> k, has |-> TRUE,
                 price |-> Pk[((i - 1) \div Len(Vk)) + 1].v,
                 vol |-> Vk[((i - 1) % Len(Vk)) + 1].v]]
        ELSE IF Len(Pk) > 0
        THEN [i \in 1..Len(Pk) |-> [sec |-> k, has |-> TRUE, price |-> Pk[i].v, vol |-> 0]]
        ELSE [i \in 1..Len(Vk) |-> [sec |-> k, has |-> FALSE, price |-> 0, vol |-> Vk[i].v]]

RECURSIVE JoinKeys(_, _, _)
JoinKeys(P, V, ks) ==
    IF ks = <<>> THEN <<>> ELSE JoinKey(P, V, Head(ks)) \o JoinKeys(P, V, Tail(ks))

\* df = dfp.join(dfv["vol"], how="outer").sort_index(); df["vol"].fillna(0)
\* without volumes: df = dfp.copy(); df["vol"] = 0.0
JoinOuter(P, V) ==
    JoinKeys(P, V, SortedSeq({P[i].sec : i \in DOMAIN P} \cup {V[i].sec : i \in DOMAIN V}))

\* df["price"] = df["price"].ffill(): a row without a price takes the price of
\* the nearest earlier row that has one; leading rows stay NaN
Ffill(df) ==
    [i \in DOMAIN df |->
        IF df[i].has THEN df[i]
        ELSE LET before == {j \in 1..(i - 1) : df[j].has}
             IN  IF before = {} THEN df[i]
                 ELSE LET j == CHOOSE x \in before : \A y \in before : y <= x
                      IN  [df[i] EXCEPT !.has = TRUE, !.price = df[j].price]]

RECURSIVE SumVol(_)
SumVol(rws) == IF rws = <<>> THEN 0 ELSE Head(rws).vol + SumVol(Tail(rws))

\* a plausible slip: the high of a bar is its first price
BarOfHighIsOpen(df, h) ==
    LET inbin == SelectSeq(df, LAMBDA r : HourOf(r.sec) = h)
        priced == SelectSeq(inbin, LAMBDA r : r.has)
        ps == {priced[i].price : i \in DOMAIN priced}
    IN  IF priced = <<>>
        THEN [has |-> FALSE, time_unix_ms |-> h * MsPerHour,
              Open |-> 0, High |-> 0, Low |-> 0, Close |-> 0, Volume |-> SumVol(inbin)]
        ELSE [has |-> TRUE, time_unix_ms |-> h * MsPerHour,
              Open |-> priced[1].price,
              High |-> priced[1].price,
              Low |-> CHOOSE x \in ps : \A y \in ps : x <= y,
              Close |-> priced[Len(priced)].price,
              Volume |-> SumVol(inbin)]

\* df["price"].resample("h").ohlc() joined with df["vol"].resample("h").sum()
\* for the hourly bin h: NaN prices are skipped by ohlc(); the bin's bar is
\* NaN (has = FALSE) when no row of the bin has a price
BarOf(df, h) ==
    LET inbin == SelectSeq(df, LAMBDA r : HourOf(r.sec) = h)
        priced == SelectSeq(inbin, LAMBDA r : r.has)
        ps == {priced[i].price : i \in DOMAIN priced}
    IN  IF priced = <<>>
        THEN [has |-> FALSE, time_unix_ms |-> h * MsPerHour,
              Open |-> 0, High |-> 0, Low |-> 0, Close |-> 0, Volume |-> SumVol(inbin)]
        ELSE [has |-> TRUE, time_unix_ms |-> h * MsPerHour,
              Open |-> priced[1].price,
              High |-> CHOOSE x \in ps : \A y \in ps : y <= x,
              Low |-> CHOOSE x \in ps : \A y \in ps : x <= y,
              Close |-> priced[Len(priced)].price,
              Volume |-> SumVol(inbin)]

\* the bins of resample("h"): every hour from the first row's to the last row's
Bins(df) ==
    IF df = <<>> THEN <<>>
    ELSE LET lo == HourOf(df[1].sec)
             hi == HourOf(df[Len(df)].sec)
         IN  [i \in 1..(hi - lo + 1) |-> lo + i - 1]

\* .dropna(subset=["close"]) and the final column selection
DropNa(bars) ==
    LET kept == SelectSeq(bars, LAMBDA b : b.has)
    IN  [i \in DOMAIN kept |->
            [time_unix_ms |-> kept[i].time_unix_ms, Open |-> kept[i].Open, High |-> kept[i].High,
             Low |-> kept[i].Low, Close |-> kept[i].Close, Volume |-> kept[i].Volume]]

\* build_ohlcv_from_samples(all_prices, all_vols) for a non-empty all_prices
BuildOhlcv(prices, vols) ==
    LET df == Ffill(JoinOuter(Indexed(prices), Indexed(vols)))
        bins == Bins(df)
    IN  DropNa([i \in DOMAIN bins |-> BarOf(df, bins[i])])

\* the sample streams the aggregation runs are given
PriceTimes == {0, 500, 1800000, 7200000}
PriceValues == {1, 2}
VolTimes == {0, 3600000}
VolValues == {5}
PriceSamples == {[ts |-> t, v |-> x] : t \in PriceTimes, x \in PriceValues}
VolSamples == {[ts |-> t, v |-> x] : t \in VolTimes, x \in VolValues}
MaxPrices == 3
MaxVols == 2

SeqsUpTo(S, n) == UNION {[1..k -> S] : k \in 0..n}

\* fetch_via_coingecko after its chunk loop: dedupe, sort, build
Aggregate ==
    /\ script = "aggregate"
    /\ pc = "dedupe"
    /\ LET prices_unique == DedupSorted(all_prices)
           vols_unique == DedupSorted(all_vols)
       IN  IF prices_unique = <<>>
           THEN /\ pc' = "raised"
                /\ err' = "RuntimeError: No price samples"
                /\ result' = "raised"
                /\ UNCHANGED df_cg
           ELSE /\ pc' = "built"
                /\ df_cg' = BuildOhlcv(prices_unique, vols_unique)
                /\ result' = "returned"
                /\ UNCHANGED err
    /\ UNCHANGED <<script, planVars, naps, chunkVars, fetchVars, bnVars, out, writes>>
    /\ UNCHANGED <<all_prices, all_vols, ratio, threshold, cg_outcome>>

(***************************************************************************)
(* get_btc_hourly_for_grid_research.py: fetch_via_coingecko,               *)
(* fetch_binance_klines, flat_ohlc_ratio and main                          *)
(***************************************************************************)
\* an entry of data["prices"] / data["total_volumes"]: one that int()/float()
\* accept, or one they raise on (skipped by `except: pass`)
BadEntry == [ok |-> FALSE, ts |-> 0, v |-> 0]
GridPriceEntries ==
    {[ok |-> TRUE, ts |-> 0, v |-> 1], [ok |-> TRUE, ts |-> 1800000, v |-> 2],
     [ok |-> TRUE, ts |-> 7200000, v |-> 1], BadEntry}
GridVolEntries == {[ok |-> TRUE, ts |-> 3600000, v |-> 5], BadEntry}
MaxChunkPrices == 2
MaxChunkVols == 1

\* what r.json() of a 200 response can be: an object with keys (a missing
\* "prices" or "total_volumes" reads as []), the empty object {}, or a value
\* that is no object, on which data.get(...) raises
CgPayloads ==
    {[kind |-> "other", prices |-> <<>>, vols |-> <<>>],
     [kind |-> "empty", prices |-> <<>>, vols |-> <<>>]} \cup
    {[kind |-> "object", prices |-> ps, vols |-> vs] :
        ps \in SeqsUpTo(GridPriceEntries, MaxChunkPrices),
        vs \in SeqsUpTo(GridVolEntries, MaxChunkVols)}

\* for p in prices: try: all_prices.append((int(p[0]), float(p[1]))) except: pass
Parsed(entries) ==
    LET good == SelectSeq(entries, LAMBDA e : e.ok)
    IN  [i \in DOMAIN good |-> [ts |-> good[i].ts, v |-> good[i].v]]

\* Open == High == Low == Close
IsFlat(b) == b.Open = b.High /\ b.Open = b.Low /\ b.Open = b.Close

\* flat_ohlc_ratio(df): 1.0 for an empty frame, else flat.sum() / len(df);
\* the quotient is kept as [flat, n]
FlatRatio(df) ==
    IF df = <<>> THEN [flat |-> 1, n |-> 1]
    ELSE [flat |-> Cardinality({i \in DOMAIN df : IsFlat(df[i])}), n |-> Len(df)]

\* a plausible slip: the gate accepts a ratio equal to the threshold
RatioLe(r, th) == r.flat * th.den <= th.num * r.n

\* ratio < cg_fallback_threshold
RatioLt(r, th) == r.flat * th.den < th.num * r.n

\* the values --cg-fallback-threshold is run with (0.8 is the default)
Thresholds == {[num |-> 1, den |-> 2], [num |-> 4, den |-> 5]}

\* the windows main() is run on: 3 hours (one chunk) and 90 days + 3 hours
\* (two chunks of at most MAX_DAYS_PER_REQUEST days)
Windows == {[start |-> 0, end |-> 3], [start |-> 0, end |-> HoursPerDay * MAX_DAYS_PER_REQUEST + 3]}

\* int(dt.timestamp() * 1000) of an hour-aligned datetime
TsMs(dt) == [h |-> dt, ms |-> 0]
MsLt(a, b) == a.h < b.h \/ (a.h = b.h /\ a.ms < b.ms)
MsLe(a, b) == a = b \/ MsLt(a, b)
MsPlus(a, d) == [h |-> a.h + ((a.ms + d) \div MsPerHour), ms |-> (a.ms + d) % MsPerHour]

\* the klines a Binance response is made of: [openTime, open, high, low, close, volume]
FlatShape == [Open |-> 1, High |-> 1, Low |-> 1, Close |-> 1, Volume |-> 5]
MovingShape == [Open |-> 1, High |-> 2, Low |-> 1, Close |-> 2, Volume |-> 5]
Kline(t, sh) ==
    [open_time |-> t, Open |-> sh.Open, High |-> sh.High, Low |-> sh.Low,
     Close |-> sh.Close, Volume |-> sh.Volume]
Klines ==
    {Kline(TsMs(start_dt), FlatShape), Kline(TsMs(start_dt + 1), MovingShape),
     Kline(TsMs(end_dt), FlatShape)}
MaxKlines == 2
MaxPages == 2
BnPayloads == SeqsUpTo(Klines, MaxKlines)

\* `for s, e in chunks(start_dt, end_dt, days_chunk=MAX_DAYS_PER_REQUEST)`:
\* the generator yields the next chunk and the request function is called
\* (fetch_coingecko_range in the fallback script, fetch_range in the
\* CoinGecko-only script)
GridChunkNext ==
    /\ script \in {"grid", "coingecko"}
    /\ pc = "cg_loop"
    /\ ChunkHasNext
    /\ yielded' = Append(yielded, <<cur, ChunkNxt>>)
    /\ cur' = ChunkNxt
    /\ fetcher' = (IF script = "grid" THEN "fetch_coingecko_range" ELSE "fetch_range")
    /\ attempt' = 0 /\ requests' = 0 /\ sleeps' = <<>> /\ last' = NoLast /\ sent' = NoRequest
    /\ pc' = "fetch"
    /\ UNCHANGED <<script, planVars, naps, start_dt, end_dt, days_chunk, cgVars, bnVars, endVars>>

\* the loop body after fetch_coingecko_range returned (its locals are gone):
\* the samples of the payload are appended and time.sleep(delay_between)
\* runs; a payload that is no object makes data.get raise, which reaches
\* main's except clause
GridChunkBody ==
    /\ script = "grid"
    /\ pc = "fetched"
    /\ \E data \in CgPayloads :
          IF data.kind /= "other"
          THEN /\ all_prices' = all_prices \o Parsed(data.prices)
               /\ all_vols' = all_vols \o Parsed(data.vols)
               /\ naps' = PoliteSleep(naps)
               /\ pc' = "cg_loop"
               /\ UNCHANGED <<err, cg_outcome>>
          ELSE /\ all_prices' = <<>>
               /\ all_vols' = <<>>
               /\ pc' = "bn_start"
               /\ err' = "AttributeError"
               /\ cg_outcome' = "raised"
               /\ UNCHANGED naps
    /\ fetcher' = "none"
    /\ attempt' = 0 /\ requests' = 0 /\ sleeps' = <<>> /\ last' = NoLast /\ sent' = NoRequest
    /\ UNCHANGED <<script, planVars, chunkVars, df_cg, ratio, threshold, bnVars, out, writes, result>>

\* a plausible slip: main does not catch the CoinGecko error
GridFetchRaisedUncaught ==
    /\ script = "grid"
    /\ pc = "fetch_raised"
    /\ all_prices' = <<>>
    /\ all_vols' = <<>>
    /\ cg_outcome' = "raised"
    /\ result' = "raised"
    /\ pc' = "done"
    /\ UNCHANGED <<script, planVars, naps, chunkVars, fetchVars, df_cg, ratio, threshold, bnVars, out, writes, err>>

\* fetch_coingecko_range raised: the exception leaves fetch_via_coingecko and
\* is caught by `except Exception` in main
GridFetchRaised ==
    /\ script = "grid"
    /\ pc = "fetch_raised"
    /\ all_prices' = <<>>
    /\ all_vols' = <<>>
    /\ cg_outcome' = "raised"
    /\ pc' = "bn_start"
    /\ UNCHANGED <<script, planVars, naps, chunkVars, fetchVars, df_cg, ratio, threshold, bnVars, endVars>>

\* the chunk loop is over: dedupe, sort, build_ohlcv_from_samples (which
\* raises on an empty price list), return to main, ratio = flat_ohlc_ratio(df_cg)
GridBuild ==
    /\ script = "grid"
    /\ pc = "cg_loop"
    /\ ~ChunkHasNext
    /\ LET prices_unique == DedupSorted(all_prices)
           vols_unique == DedupSorted(all_vols)
       IN  IF prices_unique = <<>>
           THEN /\ err' = "RuntimeError: No price samples"
                /\ cg_outcome' = "raised"
                /\ pc' = "bn_start"
                /\ UNCHANGED <<df_cg, ratio>>
           ELSE /\ df_cg' = BuildOhlcv(prices_unique, vols_unique)
                /\ ratio' = FlatRatio(df_cg')
                /\ pc' = "cg_gate"
                /\ UNCHANGED <<err, cg_outcome>>
    /\ all_prices' = <<>>
    /\ all_vols' = <<>>
    /\ UNCHANGED <<script, planVars, naps, chunkVars, fetchVars, threshold, bnVars, out, writes, result>>

\* `if ratio < cg_fallback_threshold`: write df_cg and return; else fall
\* through to the Binance part
GridGate ==
    /\ script = "grid"
    /\ pc = "cg_gate"
    /\ IF RatioLt(ratio, threshold)
       THEN /\ out' = [provider |-> "coingecko", rows |-> df_cg]
            /\ writes' = writes + 1
            /\ result' = "returned"
            /\ cg_outcome' = "accepted"
            /\ pc' = "done"
       ELSE /\ cg_outcome' = "rejected"
            /\ pc' = "bn_start"
            /\ UNCHANGED <<out, writes, result>>
    /\ UNCHANGED <<script, planVars, naps, chunkVars, fetchVars, all_prices, all_vols, df_cg, ratio, threshold>>
    /\ UNCHANGED <<bnVars, err>>

\* a plausible slip: the cursor is left on the last bar returned
GridNextStartMsNoStep(last_open) == last_open

\* last_open = int(data[-1][0]); start_ms = last_open + 1
GridNextStartMs(last_open) == MsPlus(last_open, 1)

\* interval_ms = 3600 * 1000; next_start_ms = last_open_ms + interval_ms
BnMainNextStartMs(last_open_ms) == MsPlus(last_open_ms, MsPerHour)

\* fetch_binance_klines is entered: start_ms, end_ms, rows = []
GridBinanceStart ==
    /\ script = "grid"
    /\ pc = "bn_start"
    /\ start_ms' = TsMs(start_dt)
    /\ rows' = <<>>
    /\ pages' = 0
    /\ fetcher' = "binance_get"
    /\ attempt' = 0 /\ requests' = 0 /\ sleeps' = <<>> /\ last' = NoLast /\ sent' = NoRequest
    /\ err' = "none"
    /\ naps' = <<>>
    /\ pc' = "bn_loop"
    /\ UNCHANGED <<script, planVars, chunkVars, cgVars, out, writes, result>>

\* one turn of `while start_ms < end_ms`: a single requests.get with no
\* retry around it.  A transport error or a status other than 200 leaves
\* fetch_binance_klines as an exception, which main prints and re-raises.
\* An empty list breaks the loop; otherwise the klines are appended, start_ms
\* becomes the last open time + 1 ms and time.sleep(delay_between) runs.
GridBinancePage ==
    /\ script = "grid"
    /\ pc = "bn_loop"
    /\ MsLt(start_ms, TsMs(end_dt))
    /\ pages < MaxPages
    /\ pages' = pages + 1
    /\ requests' = requests + 1
    /\ sent' = GridBinanceRequest
    /\ \E r \in Responses :
          /\ last' = [k |-> 0, kind |-> r.kind, status |-> r.status, slept |-> 0]
          /\ IF r.kind = "neterr" \/ r.status /= 200
             THEN /\ err' = (IF r.kind = "neterr" THEN "RequestException" ELSE "RuntimeError: Binance error")
                  /\ result' = "raised"
                  /\ pc' = "done"
                  /\ UNCHANGED <<rows, start_ms, naps>>
             ELSE \E data \in BnPayloads :
                     IF data = <<>>
                     THEN /\ pc' = "bn_end"
                          /\ UNCHANGED <<rows, start_ms, err, result, naps>>
                     ELSE /\ rows' = rows \o data
                          /\ start_ms' = GridNextStartMs(data[Len(data)].open_time)
                          /\ naps' = PoliteSleep(naps)
                          /\ pc' = "bn_loop"
                          /\ UNCHANGED <<err, result>>
    /\ UNCHANGED <<script, planVars, chunkVars, fetcher, attempt, sleeps, cgVars, out, writes>>

\* the loop test fails
GridBinanceLoopEnd ==
    /\ script = "grid"
    /\ pc = "bn_loop"
    /\ ~MsLt(start_ms, TsMs(end_dt))
    /\ pc' = "bn_end"
    /\ UNCHANGED <<script, planVars, naps, chunkVars, fetchVars, cgVars, bnVars, endVars>>

\* a plausible change: the Binance bars go through the flat-ratio gate too
GridBinanceEndGated ==
    /\ script = "grid"
    /\ pc = "bn_end"
    /\ IF rows = <<>> \/ ~RatioLt(FlatRatio(rows), threshold)
       THEN /\ err' = "RuntimeError: No klines from Binance"
            /\ result' = "raised"
            /\ UNCHANGED <<out, writes>>
       ELSE /\ out' = [provider |-> "binance", rows |-> rows]
            /\ writes' = writes + 1
            /\ result' = "returned"
            /\ UNCHANGED err
    /\ pc' = "done"
    /\ UNCHANGED <<script, planVars, naps, chunkVars, fetchVars, cgVars, bnVars>>

\* a plausible slip: the `if not rows` test is missing
GridBinanceEndAlwaysWrites ==
    /\ script = "grid"
    /\ pc = "bn_end"
    /\ out' = [provider |-> "binance", rows |-> rows]
    /\ writes' = writes + 1
    /\ result' = "returned"
    /\ pc' = "done"
    /\ UNCHANGED <<script, planVars, naps, chunkVars, fetchVars, cgVars, bnVars, err>>

\* after the loop: `if not rows: raise`, else the frame is returned to main,
\* which writes it and returns
GridBinanceEnd ==
    /\ script = "grid"
    /\ pc = "bn_end"
    /\ IF rows = <<>>
       THEN /\ err' = "RuntimeError: No klines from Binance"
            /\ result' = "raised"
            /\ UNCHANGED <<out, writes>>
       ELSE /\ out' = [provider |-> "binance", rows |-> rows]
            /\ writes' = writes + 1
            /\ result' = "returned"
            /\ UNCHANGED err
    /\ pc' = "done"
    /\ UNCHANGED <<script, planVars, naps, chunkVars, fetchVars, cgVars, bnVars>>

(***************************************************************************)
(* get_btc_hourly_coingecko.py: main                                       *)
(***************************************************************************)
\* the loop body after fetch_range returned: `if not data: raise`; a value
\* that is no object fails there or at data.get; an entry int()/float()
\* reject raises too (nothing catches it); otherwise the (iso, ts_ms, price)
\* rows are appended and time.sleep(delay_between) runs
CgMainChunkBody ==
    /\ script = "coingecko"
    /\ pc = "fetched"
    /\ \E data \in CgPayloads :
          IF data.kind = "object" /\ \A i \in DOMAIN data.prices : data.prices[i].ok
          THEN /\ all_prices' = all_prices \o Parsed(data.prices)
               /\ naps' = PoliteSleep(naps)
               /\ pc' = "cg_loop"
               /\ UNCHANGED <<err, result>>
          ELSE /\ err' = (IF data.kind = "empty" THEN "RuntimeError: Empty response"
                          ELSE IF data.kind = "other" THEN "AttributeError"
                          ELSE "ValueError")
               /\ result' = "raised"
               /\ pc' = "done"
               /\ UNCHANGED <<all_prices, naps>>
    /\ fetcher' = "none"
    /\ attempt' = 0 /\ requests' = 0 /\ sleeps' = <<>> /\ last' = NoLast /\ sent' = NoRequest
    /\ UNCHANGED <<script, planVars, chunkVars, all_vols, df_cg, ratio, threshold, cg_outcome, bnVars, out, writes>>

\* an exception of a request function leaves main (get_btc_hourly_coingecko.py
\* and get_btcusdt_hourly.py catch nothing)
MainFetchRaised ==
    /\ script \in {"coingecko", "binance"}
    /\ pc = "fetch_raised"
    /\ result' = "raised"
    /\ pc' = "done"
    /\ UNCHANGED <<script, planVars, naps, chunkVars, fetchVars, cgVars, bnVars, out, writes, err>>

\* after the chunk loop: dedupe by timestamp, sort, write the CSV
CgMainWrite ==
    /\ script = "coingecko"
    /\ pc = "cg_loop"
    /\ ~ChunkHasNext
    /\ out' = [provider |-> "coingecko", rows |-> DedupSorted(all_prices)]
    /\ writes' = writes + 1
    /\ result' = "returned"
    /\ pc' = "done"
    /\ UNCHANGED <<script, planVars, naps, chunkVars, fetchVars, cgVars, bnVars, err>>

(***************************************************************************)
(* get_btcusdt_hourly.py: main (start_ms is its next_start_ms)             *)
(***************************************************************************)
\* the loop test `while next_start_ms < end_ms` holds: fetch_chunk is called
BnMainPageNext ==
    /\ script = "binance"
    /\ pc = "bn_loop"
    /\ MsLt(start_ms, TsMs(end_dt))
    /\ pages < MaxPages
    /\ pages' = pages + 1
    /\ fetcher' = "fetch_chunk"
    /\ attempt' = 0 /\ requests' = 0 /\ sleeps' = <<>> /\ last' = NoLast /\ sent' = NoRequest
    /\ pc' = "fetch"
    /\ UNCHANGED <<script, planVars, naps, chunkVars, cgVars, start_ms, rows, endVars>>

\* the loop test fails
BnMainLoopEnd ==
    /\ script = "binance"
    /\ pc = "bn_loop"
    /\ ~MsLt(start_ms, TsMs(end_dt))
    /\ pc' = "bn_write"
    /\ UNCHANGED <<script, planVars, naps, chunkVars, fetchVars, cgVars, bnVars, endVars>>

\* the loop body after fetch_chunk returned: an empty chunk breaks; else
\* the klines are appended, next_start_ms = last open time + 3 600 000,
\* time.sleep(sleep_between), and the loop breaks when next_start_ms is not
\* above start_ms or has reached end_ms
BnMainPageBody ==
    /\ script = "binance"
    /\ pc = "fetched"
    /\ \E chunk \in BnPayloads :
          IF chunk = <<>>
          THEN /\ pc' = "bn_write"
               /\ UNCHANGED <<rows, start_ms, naps>>
          ELSE LET next_start_ms == BnMainNextStartMs(chunk[Len(chunk)].open_time)
               IN  /\ rows' = rows \o chunk
                   /\ start_ms' = next_start_ms
                   /\ naps' = PoliteSleep(naps)
                   /\ pc' = IF MsLe(next_start_ms, TsMs(start_dt)) THEN "bn_write"
                            ELSE IF MsLe(TsMs(end_dt), next_start_ms) THEN "bn_write"
                            ELSE "bn_loop"
    /\ fetcher' = "none"
    /\ attempt' = 0 /\ requests' = 0 /\ sleeps' = <<>> /\ last' = NoLast /\ sent' = NoRequest
    /\ UNCHANGED <<script, planVars, chunkVars, cgVars, pages, endVars>>

\* after the loop: the CSV is written with whatever all_rows holds
BnMainWrite ==
    /\ script = "binance"
    /\ pc = "bn_write"
    /\ out' = [provider |-> "binance", rows |-> rows]
    /\ writes' = writes + 1
    /\ result' = "returned"
    /\ pc' = "done"
    /\ UNCHANGED <<script, planVars, naps, chunkVars, fetchVars, cgVars, bnVars, err>>

(***************************************************************************)
(* The window main() computes, in each of the three scripts.  A datetime   *)
(* is [y, m, d, h, mi]; mi stands for what lies below the hour (minutes,   *)
(* seconds, microseconds).                                                 *)
(***************************************************************************)
\* the year the hour count of start_dt and end_dt starts at
EpochYear == 2023

IsLeap(y) == (y % 4 = 0 /\ y % 100 /= 0) \/ y % 400 = 0

DaysInMonth(y, m) ==
    IF m = 2 THEN (IF IsLeap(y) THEN 29 ELSE 28)
    ELSE IF m \in {4, 6, 9, 11} THEN 30 ELSE 31

RECURSIVE DaysBeforeMonth(_, _)
DaysBeforeMonth(y, m) == IF m <= 1 THEN 0 ELSE DaysBeforeMonth(y, m - 1) + DaysInMonth(y, m - 1)

RECURSIVE DaysBeforeYear(_)
DaysBeforeYear(y) ==
    IF y <= EpochYear THEN 0 ELSE DaysBeforeYear(y - 1) + (IF IsLeap(y - 1) THEN 366 ELSE 365)

\* an hour-aligned datetime as hours since the first hour of EpochYear
HoursOf(dt) == (DaysBeforeYear(dt.y) + DaysBeforeMonth(dt.y, dt.m) + dt.d - 1) * HoursPerDay + dt.h

\* now.replace(minute=0, second=0, microsecond=0)
TruncHour(dt) == [dt EXCEPT !.mi = 0]

RECURSIVE RollBack(_, _)
\* while month <= 0: month += 12; year -= 1
RollBack(year, month) ==
    IF month <= 0 THEN RollBack(year - 1, month + MonthsPerYear) ELSE [year |-> year, month |-> month]

\* the day of the month the window starts on: get_btcusdt_hourly.py takes
\* min(end_dt.day, 28), the two CoinGecko scripts take 1
StartDay(sc, end) == IF sc = "binance" THEN Min(end.d, 28) ELSE 1

\* the first lines of main(): end_dt is now cut to the hour, the month is
\* now.month - months rolled back into the years before, start_dt is
\* datetime(year, month, day) at 00:00, which raises ValueError for a month
\* above 12.  No script tests months.  Then the chunk loop (with
\* days_chunk=MAX_DAYS_PER_REQUEST) or the paging loop is entered.
PlanWindow ==
    /\ script \in {"grid", "coingecko", "binance"}
    /\ pc = "plan"
    /\ LET end == TruncHour(now)
           ym == RollBack(now.y, now.m - months)
           start == [y |-> ym.year, m |-> ym.month, d |-> StartDay(script, end), h |-> 0, mi |-> 0]
       IN  IF ym.month > MonthsPerYear
           THEN /\ err' = "ValueError: month must be in 1..12"
                /\ result' = "raised"
                /\ pc' = "done"
                /\ UNCHANGED <<window, start_dt, end_dt, cur, start_ms>>
           ELSE /\ window' = [start |-> start, end |-> end]
                /\ start_dt' = HoursOf(start)
                /\ end_dt' = HoursOf(end)
                /\ cur' = start_dt'
                /\ start_ms' = (IF script = "binance" THEN TsMs(start_dt') ELSE start_ms)
                /\ pc' = (IF script = "binance" THEN "bn_loop" ELSE "cg_loop")
                /\ UNCHANGED <<err, result>>
    /\ days_chunk' = MAX_DAYS_PER_REQUEST
    /\ UNCHANGED <<script, months, now, chunk_days, delay, naps, yielded, fetchVars, cgVars>>
    /\ UNCHANGED <<rows, pages, out, writes>>

\* the inputs the planned runs are given
MaxMonths == 1
PlanMonths == (-1)..MaxMonths
Nows ==
    {[y |-> 2024, m |-> 3, d |-> 15, h |-> 10, mi |-> 0],
     [y |-> 2024, m |-> 1, d |-> 1, h |-> 0, mi |-> 30],
     [y |-> 2023, m |-> 12, d |-> 31, h |-> 23, mi |-> 59]}
ChunkDaysSettings == {7, MAX_DAYS_PER_REQUEST}

\* bounds of the chunks() runs
MaxWindowHours == 60
MaxDays == 2

\* a run whose window is given: the planning inputs are not tracked, the
\* chunk size and the delay are the defaults
GivenWindow(d) ==
    /\ months = 0 /\ now = NoNow /\ window = NoWindow
    /\ chunk_days = MAX_DAYS_PER_REQUEST
    /\ delay = d
    /\ naps = <<>>

IdleFetch ==
    /\ fetcher = "none" /\ attempt = 0 /\ requests = 0 /\ sleeps = <<>> /\ last = NoLast /\ sent = NoRequest
NoThreshold == [num |-> 0, den |-> 1]
IdleCgData ==
    /\ all_prices = <<>> /\ all_vols = <<>> /\ df_cg = <<>> /\ ratio = NoRatio
    /\ cg_outcome = "none"
IdleCg == IdleCgData /\ threshold = NoThreshold
IdleBn == start_ms = NoMs /\ rows = <<>> /\ pages = 0
IdleEnd == out = NoFile /\ writes = 0 /\ result = "running" /\ err = "none"

InitRetry ==
    /\ script = "fetch"
    /\ pc = "fetch"
    /\ fetcher \in {"fetch_range", "fetch_coingecko_range", "fetch_chunk"}
    /\ attempt = 0 /\ requests = 0 /\ sleeps = <<>> /\ last = NoLast /\ sent = NoRequest
    /\ start_dt = 0 /\ end_dt = 1 /\ days_chunk = MAX_DAYS_PER_REQUEST
    /\ cur = 0 /\ yielded = <<>>
    /\ GivenWindow(0)
    /\ IdleCg /\ IdleBn /\ IdleEnd

NextRetry == FetchAttempt \/ FetchExhausted

SpecRetry == InitRetry /\ [][NextRetry]_vars

InitAgg ==
    /\ script = "aggregate"
    /\ pc = "dedupe"
    /\ all_prices \in SeqsUpTo(PriceSamples, MaxPrices)
    /\ all_vols \in SeqsUpTo(VolSamples, MaxVols)
    /\ df_cg = <<>> /\ ratio = NoRatio /\ threshold = NoThreshold /\ cg_outcome = "none"
    /\ start_dt = 0 /\ end_dt = 1 /\ days_chunk = MAX_DAYS_PER_REQUEST
    /\ cur = 0 /\ yielded = <<>>
    /\ GivenWindow(0)
    /\ IdleFetch /\ IdleBn /\ IdleEnd

NextAgg == Aggregate

SpecAgg == InitAgg /\ [][NextAgg]_vars

\* main() of get_btc_hourly_for_grid_research.py with the window computed
\* and fetch_via_coingecko entered: all_prices = [], all_vols = []
Init ==
    /\ script = "grid"
    /\ pc = "cg_loop"
    /\ \E w \in Windows : start_dt = w.start /\ end_dt = w.end
    /\ days_chunk = MAX_DAYS_PER_REQUEST
    /\ cur = start_dt
    /\ yielded = <<>>
    /\ threshold \in Thresholds
    /\ GivenWindow(DEFAULT_DELAY_MS)
    /\ IdleFetch /\ IdleCgData /\ IdleBn /\ IdleEnd

Next ==
    \/ GridChunkNext
    \/ FetchAttempt
    \/ FetchExhausted
    \/ GridChunkBody
    \/ GridFetchRaised
    \/ GridBuild
    \/ GridGate
    \/ GridBinanceStart
    \/ GridBinancePage
    \/ GridBinanceLoopEnd
    \/ GridBinanceEnd

Spec == Init /\ [][Next]_vars

\* main() of get_btc_hourly_coingecko.py with the window computed: rows = []
InitCgMain ==
    /\ script = "coingecko"
    /\ pc = "cg_loop"
    /\ \E w \in Windows : start_dt = w.start /\ end_dt = w.end
    /\ days_chunk = MAX_DAYS_PER_REQUEST
    /\ cur = start_dt
    /\ yielded = <<>>
    /\ GivenWindow(DEFAULT_DELAY_MS)
    /\ IdleFetch /\ IdleCg /\ IdleBn /\ IdleEnd

NextCgMain ==
    \/ GridChunkNext
    \/ FetchAttempt
    \/ FetchExhausted
    \/ CgMainChunkBody
    \/ MainFetchRaised
    \/ CgMainWrite

SpecCgMain == InitCgMain /\ [][NextCgMain]_vars

\* the windows main() of get_btcusdt_hourly.py is run on: those above, and
\* the empty one of --months 0 in the first hour of a day (start_dt = end_dt)
BnMainWindows == Windows \cup {[start |-> 0, end |-> 0]}

\* main() of get_btcusdt_hourly.py with the window computed: all_rows = [],
\* next_start_ms = start_ms
InitBnMain ==
    /\ script = "binance"
    /\ pc = "bn_loop"
    /\ \E w \in BnMainWindows : start_dt = w.start /\ end_dt = w.end
    /\ days_chunk = MAX_DAYS_PER_REQUEST
    /\ cur = start_dt
    /\ yielded = <<>>
    /\ start_ms = TsMs(start_dt) /\ rows = <<>> /\ pages = 0
    /\ GivenWindow(SLEEP_BETWEEN_MS)
    /\ IdleFetch /\ IdleCg /\ IdleEnd

NextBnMain ==
    \/ BnMainPageNext
    \/ BnMainLoopEnd
    \/ FetchAttempt
    \/ FetchExhausted
    \/ BnMainPageBody
    \/ MainFetchRaised
    \/ BnMainWrite

SpecBnMain == InitBnMain /\ [][NextBnMain]_vars

\* the three scripts, each run on its own
InitScripts == Init \/ InitCgMain \/ InitBnMain

NextScripts == Next \/ NextCgMain \/ NextBnMain

SpecScripts == InitScripts /\ [][NextScripts]_vars

\* any of the three scripts started with --months (and, for the fallback
\* script, --chunk-days) at a time now
InitPlan ==
    /\ script \in {"grid", "coingecko", "binance"}
    /\ pc = "plan"
    /\ months \in PlanMonths
    /\ now \in Nows
    /\ chunk_days \in (IF script = "grid" THEN ChunkDaysSettings ELSE {MAX_DAYS_PER_REQUEST})
    /\ delay = (IF script = "binance" THEN SLEEP_BETWEEN_MS ELSE DEFAULT_DELAY_MS)
    /\ window = NoWindow
    /\ naps = <<>>
    /\ start_dt = 0 /\ end_dt = 0 /\ days_chunk = MAX_DAYS_PER_REQUEST
    /\ cur = 0 /\ yielded = <<>>
    /\ threshold = (IF script = "grid" THEN [num |-> 4, den |-> 5] ELSE NoThreshold)
    /\ IdleFetch /\ IdleCgData /\ IdleBn /\ IdleEnd

NextPlan == PlanWindow \/ NextScripts

SpecPlan == InitPlan /\ [][NextPlan]_vars

InitChunks ==
    /\ script = "chunks"
    /\ pc = "chunks"
    /\ start_dt \in {0, HoursPerDay}
    /\ end_dt \in (start_dt + 1)..(start_dt + MaxWindowHours)
    /\ days_chunk \in 1..MaxDays
    /\ cur = start_dt
    /\ yielded = <<>>
    /\ GivenWindow(0)
    /\ IdleFetch /\ IdleCg /\ IdleBn /\ IdleEnd

NextChunks == ChunkYield \/ ChunkStop

SpecChunks == InitChunks /\ [][NextChunks]_vars

\* C10: chunks(start, end, span) with start < end and span >= 1 day ends after
\* exactly ceil((end - start) / span) pairs; the pairs start at start, each is
\* non-empty and no longer than span, each begins where the one before ended,
\* and when the generator is exhausted the last one ends at end.
ChunksPartition ==
    script = "chunks" =>
        LET n == Len(yielded)
            span == HoursPerDay * days_chunk
        IN  /\ n <= CeilDiv(end_dt - start_dt, span)
            /\ \A i \in 1..n :
                  /\ yielded[i][1] < yielded[i][2]
                  /\ yielded[i][2] - yielded[i][1] <= span
                  /\ yielded[i][2] <= end_dt
            /\ n >= 1 => yielded[1][1] = start_dt
            /\ \A i \in 1..(n - 1) : yielded[i][2] = yielded[i + 1][1]
            /\ cur = (IF n = 0 THEN start_dt ELSE yielded[n][2])
            /\ pc = "done" =>
                  /\ n = CeilDiv(end_dt - start_dt, span)
                  /\ yielded[n][2] = end_dt

\* a window of several chunks whose last chunk is cut short at end_dt
ChunksPartitionWitness ==
    /\ script = "chunks"
    /\ pc = "done"
    /\ Len(yielded) >= 3
    /\ yielded[Len(yielded)][2] - yielded[Len(yielded)][1] < HoursPerDay * days_chunk
(***************************************************************************)
(* Claims about the request functions                                      *)
(***************************************************************************)
\* the failures the retry policy names: HTTP 429/502/503/504 or a transport error
TransientResp(l) == l.kind = "neterr" \/ (l.kind = "http" /\ l.status \in {429, 502, 503, 504})

\* a response the function returns on
SuccessResp(f, l) ==
    l.kind = "http" /\ (IF f = "fetch_chunk" THEN l.status < 400 ELSE l.status = 200)

\* a client error that no client lists as retryable (400, 404, ...)
RejectedResp(l) == l.kind = "http" /\ 400 <= l.status /\ l.status < 500 /\ l.status \notin {418, 429}

\* C5: in every chunk fetch, a response with a status that is neither success
\* nor retryable (HTTP 400, 404) ends the fetch at once with an error: no
\* backoff sleep follows it and no further request is sent.
RejectedFailsAtOnce ==
    (script = "fetch" /\ RejectedResp(last)) =>
        /\ pc = "fetch_raised"
        /\ last.slept = 0
        /\ requests = last.k + 1

\* fetch_chunk does fail at once on a 404
RejectedFailsAtOnceInFetchChunk ==
    /\ script = "fetch" /\ fetcher = "fetch_chunk"
    /\ last.status = 404 /\ pc = "fetch_raised" /\ last.slept = 0 /\ sleeps = <<>>

\* C6, the part every state shows: at most 6 requests per chunk, one per
\* attempt; a transient failure at attempt k is followed by a sleep of exactly
\* 2^k seconds; the fetch has returned exactly when the last response was a
\* success; and a raise after 6 failed attempts is the exhaustion error.
RetryBackoffInv ==
    script = "fetch" =>
        /\ requests <= RETRIES
        /\ attempt <= RETRIES
        /\ last.kind /= "none" => requests = last.k + 1
        /\ (last.kind /= "none" /\ TransientResp(last)) =>
              /\ last.slept = Pow(2, last.k)
              /\ Len(sleeps) >= 1 /\ sleeps[Len(sleeps)] = Pow(2, last.k)
              /\ attempt = last.k + 1
              /\ pc /= "fetched"
        /\ (pc = "fetched") <=> (last.kind /= "none" /\ SuccessResp(fetcher, last))
        /\ (pc = "fetch_raised" /\ attempt = RETRIES) =>
              /\ requests = RETRIES
              /\ err = "RuntimeError: retries"

\* C6, the steps: a request is sent only while fewer than 6 attempts were
\* made and nothing was returned or raised; once 6 attempts have failed the
\* only step left raises the exhaustion error.
RetryBackoffStep ==
    script = "fetch" =>
        /\ requests' /= requests => (pc = "fetch" /\ attempt < RETRIES /\ requests' = requests + 1)
        /\ (pc = "fetch" /\ attempt = RETRIES) => (pc' = "fetch_raised" /\ err' = "RuntimeError: retries")
        /\ pc \in {"fetched", "fetch_raised"} => UNCHANGED vars

\* C6: in each retrying chunk fetch, for any sequence of responses, at most 6
\* requests are sent; after the failed retryable attempt k the client sleeps
\* exactly 2^k seconds; the first successful response ends the fetch with its
\* payload; after 6 failed attempts the fetch ends with the exhaustion error
\* and returns nothing.
RetryBackoff == []RetryBackoffInv /\ [][RetryBackoffStep]_vars

\* six transient failures in a row, slept 1, 2, 4, 8, 16, 32, then the error
RetryBackoffWitness ==
    /\ script = "fetch"
    /\ pc = "fetch_raised"
    /\ sleeps = <<1, 2, 4, 8, 16, 32>>
    /\ TransientResp(last)
    /\ err = "RuntimeError: retries"
(***************************************************************************)
(* Claims about the aggregation                                            *)
(***************************************************************************)
\* the hours in which the price stream given to the aggregator has a sample
PricedHours == {HourOf(SecOf(all_prices[i].ts)) : i \in DOMAIN all_prices}

\* the hours the output has a bar for
BarHours == {df_cg[i].time_unix_ms \div MsPerHour : i \in DOMAIN df_cg}

\* C4: no fabricated bars: an hour with no price sample has no bar in the
\* output, also when it has volume samples and an earlier hour has prices.
NoFabricatedBars ==
    (script = "aggregate" /\ pc = "built") => BarHours \subseteq PricedHours

\* an hour between two priced hours that has neither price nor volume: it has no bar
GapHourOmitted ==
    /\ script = "aggregate" /\ pc = "built"
    /\ PricedHours = {0, 2}
    /\ all_vols = <<>>
    /\ BarHours = {0, 2}
(***************************************************************************)
(* Claims about main of get_btc_hourly_for_grid_research.py                *)
(***************************************************************************)
\* the control locations of the Binance part and after
AfterCoinGecko == {"bn_start", "bn_loop", "bn_end", "done"}

\* every Binance response of the run was a 200, and rows were collected
BinanceGaveBars ==
    fetcher = "binance_get" /\ rows /= <<>> /\ last.kind = "http" /\ last.status = 200

\* the errors the Binance part raises
BinanceErrors == {"RequestException", "RuntimeError: Binance error", "RuntimeError: No klines from Binance"}

\* C1: whenever the CoinGecko fetch or aggregation raises (retry exhaustion on
\* the first chunk included), the run goes on to Binance: nothing is written
\* or raised at that point, a finished run has sent a Binance request, and if
\* Binance answered every request with 200 and gave at least one bar, the run
\* has written exactly Binance's bars and returned; an error that ends the
\* run is Binance's, never CoinGecko's.
FallbackOnCoinGeckoError ==
    (script = "grid" /\ cg_outcome = "raised") =>
        /\ pc \in AfterCoinGecko
        /\ out.provider /= "coingecko"
        /\ pc /= "done" => (result = "running" /\ out = NoFile)
        /\ pc = "done" => (fetcher = "binance_get" /\ pages >= 1)
        /\ (pc = "done" /\ BinanceGaveBars) =>
              /\ out = [provider |-> "binance", rows |-> rows]
              /\ result = "returned"
              /\ writes = 1
        /\ result = "raised" => err \in BinanceErrors

\* CoinGecko ran out of retries on the first of two chunks, Binance gave bars
FallbackOnCoinGeckoErrorWitness ==
    /\ script = "grid" /\ cg_outcome = "raised" /\ pc = "done"
    /\ end_dt > HoursPerDay * MAX_DAYS_PER_REQUEST
    /\ Len(yielded) = 1
    /\ result = "returned"
    /\ out.provider = "binance" /\ Len(out.rows) >= 2

\* nine flat bars and one moving bar
NineFlatOfTen ==
    [i \in 1..10 |->
        [time_unix_ms |-> (i - 1) * MsPerHour, Open |-> 1, High |-> (IF i = 10 THEN 2 ELSE 1),
         Low |-> 1, Close |-> 1, Volume |-> 0]]

\* the gate has been evaluated
Gated == cg_outcome \in {"accepted", "rejected"}

\* C2: the flat-ratio is (bars with Open = High = Low = Close) / (bars), and
\* the CoinGecko bars are written exactly when the fetch succeeded and
\* flat-ratio < threshold, strictly: with flat-ratio >= threshold (equality
\* included; 9 flat of 10 against 0.8) they are never written and Binance is
\* tried, although nothing was raised.
GateIsStrict ==
    script = "grid" =>
        /\ (pc = "cg_gate" \/ Gated) =>
              /\ ratio.n = Len(df_cg)
              /\ ratio.flat = Cardinality({i \in DOMAIN df_cg :
                    df_cg[i].Open = df_cg[i].High /\ df_cg[i].High = df_cg[i].Low
                    /\ df_cg[i].Low = df_cg[i].Close})
        /\ out.provider = "coingecko" =>
              (Gated /\ out.rows = df_cg /\ ratio.flat * threshold.den < threshold.num * ratio.n)
        /\ (Gated /\ ratio.flat * threshold.den < threshold.num * ratio.n) =>
              (out = [provider |-> "coingecko", rows |-> df_cg] /\ result = "returned" /\ pc = "done")
        /\ (Gated /\ ratio.flat * threshold.den >= threshold.num * ratio.n) =>
              (out.provider /= "coingecko" /\ cg_outcome = "rejected" /\ pc \in AfterCoinGecko
               /\ (pc = "done" => pages >= 1))
        /\ ~Gated => out.provider /= "coingecko"
        /\ FlatRatio(NineFlatOfTen) = [flat |-> 9, n |-> 10]
        /\ ~RatioLt(FlatRatio(NineFlatOfTen), [num |-> 4, den |-> 5])

\* flat-ratio equal to the threshold, some bar not flat: rejected, Binance written
GateIsStrictWitness ==
    /\ script = "grid" /\ cg_outcome = "rejected"
    /\ ratio.flat * threshold.den = threshold.num * ratio.n
    /\ err = "none"
    /\ out.provider = "binance"

\* C3 as claimed: whatever is written passed the gate, the last provider's
\* bars too: written bars have flat-ratio < threshold, and a last provider
\* whose bars are too flat ends the run failed with no output.
GateOnEveryProvider ==
    script = "grid" =>
        /\ out.provider /= "none" => RatioLt(FlatRatio(out.rows), threshold)
        /\ (pc = "done" /\ BinanceGaveBars /\ ~RatioLt(FlatRatio(rows), threshold)) =>
              (result = "raised" /\ out = NoFile)

\* C3 as the code has it: the gate applies to CoinGecko only.  CoinGecko bars
\* are written only after their flat-ratio was computed and found < threshold;
\* the bars of a successful Binance fetch are written whatever their
\* flat-ratio, and the run ends accepted.
GateOnCoinGeckoOnly ==
    script = "grid" =>
        /\ out.provider = "coingecko" =>
              (ratio = FlatRatio(df_cg) /\ RatioLt(ratio, threshold) /\ out.rows = df_cg)
        /\ (pc = "done" /\ BinanceGaveBars) =>
              (out = [provider |-> "binance", rows |-> rows] /\ result = "returned")

\* Binance bars that are all flat were written
GateOnCoinGeckoOnlyWitness ==
    /\ script = "grid" /\ pc = "done" /\ result = "returned"
    /\ out.provider = "binance"
    /\ \A i \in DOMAIN out.rows : IsFlat(out.rows[i])
    /\ ~RatioLt(FlatRatio(out.rows), threshold)

\* C7: the retry policy covers the Binance client of the fallback script too:
\* a transient failure (HTTP 429/502/503/504, transport error) of one request
\* fails a provider attempt or the run only once 6 attempts were made for
\* that chunk.
TransientFailureIsRetried ==
    script = "grid" =>
        /\ (pc = "bn_start" /\ cg_outcome = "raised" /\ fetcher = "fetch_coingecko_range"
            /\ TransientResp(last)) => requests = RETRIES
        /\ (result = "raised" /\ fetcher = "binance_get" /\ TransientResp(last)) =>
              last.k + 1 >= RETRIES

\* the CoinGecko client does retry: its attempt failed after 6 transient failures
TransientFailureIsRetriedByCoinGecko ==
    /\ script = "grid" /\ pc = "bn_start" /\ cg_outcome = "raised"
    /\ TransientResp(last) /\ requests = RETRIES /\ Len(sleeps) = RETRIES

\* C8: when every provider fails (CoinGecko raised or was rejected, Binance
\* raised or gave no bars) the run ends raising and no file was written; the
\* file is written at most once, and only in an accepting branch.
AllFailedNoOutput ==
    script = "grid" =>
        /\ writes <= 1
        /\ (writes = 1) <=> (out /= NoFile)
        /\ out /= NoFile =>
              /\ pc = "done" /\ result = "returned"
              /\ \/ (out.provider = "coingecko" /\ cg_outcome = "accepted")
                 \/ (out.provider = "binance" /\ cg_outcome \in {"raised", "rejected"}
                     /\ out.rows = rows /\ rows /= <<>>)
        /\ result = "raised" =>
              (pc = "done" /\ out = NoFile /\ writes = 0 /\ cg_outcome \in {"raised", "rejected"})
        /\ (pc = "done" /\ cg_outcome \in {"raised", "rejected"} /\ ~BinanceGaveBars) =>
              (result = "raised" /\ out = NoFile /\ err \in BinanceErrors)

\* CoinGecko rejected by the gate, Binance answered 200 with an empty list
AllFailedNoOutputWitness ==
    /\ script = "grid" /\ pc = "done" /\ cg_outcome = "rejected"
    /\ last.status = 200 /\ rows = <<>>
    /\ result = "raised" /\ err = "RuntimeError: No klines from Binance"
\* C9: an empty result is never accepted as output: in every script, a
\* provider that gives no usable sample for the whole window (every chunk with
\* an empty price list, or an empty first kline chunk) does not lead to an
\* output file with no data rows; the run moves on to the next provider or
\* ends in an error.
NoEmptyOutput ==
    start_dt < end_dt =>
        /\ out.provider /= "none" => out.rows /= <<>>
        /\ (pc = "done" /\ out.provider = "none") => result = "raised"

\* the fallback script does refuse an empty CoinGecko result: it raised
\* "No price samples" and is about to try Binance
NoEmptyOutputInGrid ==
    /\ script = "grid" /\ pc = "bn_start"
    /\ Len(yielded) = 2
    /\ err = "RuntimeError: No price samples"
    /\ out = NoFile

(***************************************************************************)
(* Claims about deduplication and the bars                                 *)
(***************************************************************************)
\* the sample at position i is the last one of its timestamp
IsLastWrite(samples, i) ==
    \A j \in DOMAIN samples : j > i => samples[j].ts /= samples[i].ts

\* D holds one sample per timestamp of samples, the last written, ascending
LastWriteWins(samples, D) ==
    /\ {D[k].ts : k \in DOMAIN D} = {samples[i].ts : i \in DOMAIN samples}
    /\ Len(D) = Cardinality({samples[i].ts : i \in DOMAIN samples})
    /\ \A k \in 1..(Len(D) - 1) : D[k].ts < D[k + 1].ts
    /\ \A i \in DOMAIN samples : IsLastWrite(samples, i) => \E k \in DOMAIN D : D[k] = samples[i]

\* the two chunks of the example, prices in tenths
ExampleChunks ==
    <<[ts |-> 1000, v |-> 100], [ts |-> 2000, v |-> 120]>> \o
    <<[ts |-> 2000, v |-> 125], [ts |-> 3600000, v |-> 150]>>

ExampleDeduped ==
    <<[ts |-> 1000, v |-> 100], [ts |-> 2000, v |-> 125], [ts |-> 3600000, v |-> 150]>>

\* the aggregation ran on streams that had a price
Aggregated == script = "aggregate" /\ pc = "built"

\* C13 as claimed: the deduplicated stream has one sample per timestamp, the
\* last in fetch order, ascending, and appending an exact duplicate of any
\* sample of the stream fetched leaves the result unchanged.
DedupIdempotentForAnyDuplicate ==
    Aggregated =>
        /\ LastWriteWins(all_prices, DedupSorted(all_prices))
        /\ LastWriteWins(all_vols, DedupSorted(all_vols))
        /\ df_cg = BuildOhlcv(DedupSorted(all_prices), DedupSorted(all_vols))
        /\ DedupSorted(ExampleChunks) = ExampleDeduped
        /\ \A i \in DOMAIN all_prices :
              DedupSorted(Append(all_prices, all_prices[i])) = DedupSorted(all_prices)

\* C13 as the code has it: one sample per timestamp, the last in fetch order,
\* ascending.  Appending an exact duplicate of a sample that is the last of
\* its timestamp changes nothing, and deduplicating the result again changes
\* nothing; a duplicate of a sample that a later one had overwritten is the
\* last write itself and wins.
DedupLastWriteWins ==
    Aggregated =>
        /\ LastWriteWins(all_prices, DedupSorted(all_prices))
        /\ LastWriteWins(all_vols, DedupSorted(all_vols))
        /\ df_cg = BuildOhlcv(DedupSorted(all_prices), DedupSorted(all_vols))
        /\ DedupSorted(ExampleChunks) = ExampleDeduped
        /\ DedupSorted(DedupSorted(all_prices)) = DedupSorted(all_prices)
        /\ \A i \in DOMAIN all_prices :
              /\ IsLastWrite(all_prices, i) =>
                    DedupSorted(Append(all_prices, all_prices[i])) = DedupSorted(all_prices)
              /\ \E k \in DOMAIN DedupSorted(Append(all_prices, all_prices[i])) :
                    DedupSorted(Append(all_prices, all_prices[i]))[k] = all_prices[i]

\* two values for one timestamp and then an exact duplicate of the second
DedupLastWriteWinsWitness ==
    /\ Aggregated
    /\ Len(all_prices) = 3
    /\ all_prices[1].ts = all_prices[2].ts /\ all_prices[1].v /= all_prices[2].v
    /\ all_prices[3] = all_prices[2]
    /\ DedupSorted(all_prices) = <<all_prices[2]>>

\* C15: every bar built from a non-empty price stream has Low <= Open <= High
\* and Low <= Close <= High, and its time is the top of an hour.
BarsWellFormed ==
    Aggregated =>
        /\ df_cg /= <<>>
        /\ \A i \in DOMAIN df_cg :
              /\ df_cg[i].Low <= df_cg[i].Open /\ df_cg[i].Open <= df_cg[i].High
              /\ df_cg[i].Low <= df_cg[i].Close /\ df_cg[i].Close <= df_cg[i].High
              /\ df_cg[i].time_unix_ms % MsPerHour = 0

\* a bar that moved (it closed above its open, which was its low) and a bar
\* of a later hour
BarsWellFormedWitness ==
    /\ Aggregated
    /\ Len(df_cg) = 2
    /\ df_cg[1].Open < df_cg[1].Close /\ df_cg[1].Low = df_cg[1].Open
    /\ df_cg[2].time_unix_ms = 2 * MsPerHour

(***************************************************************************)
(* Claims about the window and the settings of main()                      *)
(***************************************************************************)
\* the months counted from year 0
MonthIndex(dt) == dt.y * MonthsPerYear + dt.m - 1

\* a run of one of the three scripts that is past the first lines of main()
PastPlanning == script \in {"grid", "coingecko", "binance"} /\ now /= NoNow /\ pc /= "plan"

\* C11: in each of the three scripts, for months_back >= 1 and any now: end
\* is now with everything below the hour zeroed, start is 00:00 on day 1 of
\* the calendar month months_back months before end's month (the year rolled
\* back, the month in 1..12), and start < end.
WindowPlan ==
    (PastPlanning /\ months >= 1) =>
        LET idx == MonthIndex(now) - months
            sy == idx \div MonthsPerYear
            sm == (idx % MonthsPerYear) + 1
        IN  /\ window.end = [y |-> now.y, m |-> now.m, d |-> now.d, h |-> now.h, mi |-> 0]
            /\ window.start = [y |-> sy, m |-> sm, d |-> 1, h |-> 0, mi |-> 0]
            /\ window.start.m \in 1..MonthsPerYear
            /\ start_dt = HoursOf(window.start)
            /\ end_dt = HoursOf(window.end)
            /\ start_dt < end_dt

\* the fallback script on the example: months 1 at 2024-03-15T10:00 gives
\* 2024-02-01T00:00 .. 2024-03-15T10:00
WindowPlanInGrid ==
    /\ script = "grid" /\ pc = "cg_loop" /\ months = 1
    /\ now = [y |-> 2024, m |-> 3, d |-> 15, h |-> 10, mi |-> 0]
    /\ window.start = [y |-> 2024, m |-> 2, d |-> 1, h |-> 0, mi |-> 0]
    /\ window.end = [y |-> 2024, m |-> 3, d |-> 15, h |-> 10, mi |-> 0]
    /\ end_dt - start_dt = (29 + 14) * HoursPerDay + 10

\* C12: for months_back <= 0 the planning fails with an invalid-argument
\* error: the run ends raising there, no provider request is sent and no
\* output is written.
NonPositiveMonthsRejected ==
    (PastPlanning /\ months <= 0) =>
        /\ pc = "done" /\ result = "raised"
        /\ sent = NoRequest /\ requests = 0 /\ pages = 0
        /\ out = NoFile /\ writes = 0

\* months -1 in December: datetime() refuses month 13 before any request
NonPositiveMonthsMonth13 ==
    /\ PastPlanning /\ months = -1 /\ now.m = MonthsPerYear
    /\ pc = "done" /\ result = "raised"
    /\ sent = NoRequest /\ out = NoFile

\* C16: the chunk-size setting reaches the planner: run with chunk size d
\* days, every CoinGecko request of the fallback script covers at most d days.
ChunkSizePassedThrough ==
    script = "grid" =>
        (sent.api = "coingecko" => sent.to - sent.from <= SecPerHour * HoursPerDay * chunk_days)

\* with the default chunk size a planned run does send a CoinGecko request
\* for a chunk within 90 days
ChunkSizeDefaultRequest ==
    /\ script = "grid" /\ now /= NoNow /\ chunk_days = MAX_DAYS_PER_REQUEST
    /\ sent.api = "coingecko"
    /\ sent.to - sent.from = SecPerHour * (end_dt - start_dt)

(***************************************************************************)
(* Claims about the requests, the paging and the rows written              *)
(***************************************************************************)
\* a paging step of a Binance client that took a non-empty response
TookBars == script \in {"grid", "binance"} /\ Len(rows') > Len(rows)

\* a paging step of a Binance client that took an empty response
TookEmpty ==
    \/ script = "binance" /\ pc = "fetched" /\ rows' = rows
    \/ script = "grid" /\ pc = "bn_loop" /\ pages' = pages + 1 /\ rows' = rows
       /\ last'.kind = "http" /\ last'.status = 200

\* the loop of a Binance client has stopped
PagingStopped == pc \notin {"bn_loop", "fetch", "fetched"}

StallGuardStep ==
    /\ (TookBars /\ ~MsLt(start_ms, start_ms')) => PagingStopped'
    /\ TookEmpty => PagingStopped'

\* C14: Binance paging terminates whatever the responses are (repeated bars,
\* a last bar at or before the cursor): the loop stops as soon as a chunk
\* is empty or the new cursor is not strictly greater than the one before.
PagingTerminates == [][StallGuardStep]_vars

\* an empty chunk does stop the loop of the fallback script before the end
\* of the window
PagingStopsOnEmptyChunk ==
    /\ script = "grid" /\ pc = "bn_end"
    /\ pages = 2 /\ rows /= <<>>
    /\ MsLt(start_ms, TsMs(end_dt))

\* C17: every CoinGecko request of any script goes to
\* /coins/bitcoin/market_chart/range with exactly the parameters
\* vs_currency=usd, from and to, and no interval.
CoinGeckoRequestsBitcoin ==
    sent.api = "coingecko" =>
        /\ sent.coin = "bitcoin"
        /\ sent.params = {"vs_currency", "from", "to"}
        /\ sent.vs_currency = "usd"
        /\ "interval" \notin sent.params

\* the fallback script does ask for bitcoin
CoinGeckoRequestsBitcoinInGrid ==
    /\ script = "grid" /\ sent.api = "coingecko" /\ sent.coin = "bitcoin"
    /\ sent.params = {"vs_currency", "from", "to"}
    /\ sent.to > sent.from

\* the open time of the last bar taken
LastOpen(rs) == rs[Len(rs)].open_time

CursorStepOneHour ==
    TookBars =>
        /\ start_ms' = MsPlus(LastOpen(rows'), MsPerHour)
        /\ start_ms'.h > LastOpen(rows').h

\* C18 as claimed: in every Binance client the cursor after a non-empty
\* response is the open time of the last bar returned plus 3 600 000 ms, so
\* the next request starts outside the hour of that bar.
CursorAdvancesOneHour == [][CursorStepOneHour]_vars

CursorStepPastLastBar ==
    TookBars =>
        /\ script = "binance" => start_ms' = MsPlus(LastOpen(rows'), MsPerHour)
        /\ script = "grid" => start_ms' = MsPlus(LastOpen(rows'), 1)
        /\ MsLt(LastOpen(rows'), start_ms')

\* C18 as the code has it: get_btcusdt_hourly.py sets the cursor to the open
\* time of the last bar returned plus 3 600 000 ms; fetch_binance_klines of
\* the fallback script sets it to that open time plus 1 ms.  In both the
\* next request starts strictly after the open time of the last bar returned.
CursorAdvancesPastLastBar == [][CursorStepPastLastBar]_vars

\* the fallback script after a page: the cursor is 1 ms into the hour of the
\* last bar
CursorAdvancesPastLastBarWitness ==
    /\ script = "grid" /\ pc = "bn_loop" /\ rows /= <<>>
    /\ start_ms = [h |-> LastOpen(rows).h, ms |-> 1]
    /\ MsLt(start_ms, TsMs(end_dt))

\* C19: chunk requests are sequential and paced: a CoinGecko request for
\* chunk i+1 comes after one delay of the configured length for each of the
\* i chunks before, the chunks are requested in ascending order, a Binance
\* page is requested after one delay for each page before, and Binance gets
\* no request before the CoinGecko attempt has ended, and none at all when
\* CoinGecko was accepted.
SequentialAndPaced ==
    script = "grid" =>
        /\ \A i \in 1..(Len(yielded) - 1) :
              yielded[i][1] < yielded[i + 1][1] /\ yielded[i][2] = yielded[i + 1][1]
        /\ delay = DEFAULT_DELAY_MS
        /\ \A j \in DOMAIN naps : naps[j] = delay
        /\ (fetcher = "fetch_coingecko_range" /\ pc = "fetch") => Len(naps) = Len(yielded) - 1
        /\ sent.api = "coingecko" =>
              /\ sent.from = ToUnix(yielded[Len(yielded)][1])
              /\ sent.to = ToUnix(yielded[Len(yielded)][2])
              /\ Len(naps) = Len(yielded) - 1
              /\ cg_outcome = "none" \/ pc = "bn_start"
        /\ pc = "bn_loop" => Len(naps) = pages
        /\ sent.api = "binance" => Len(naps) \in {pages - 1, pages}
        /\ (fetcher = "binance_get" \/ sent.api = "binance" \/ pages > 0) =>
              cg_outcome \in {"raised", "rejected"}
        /\ cg_outcome = "accepted" => (pages = 0 /\ sent.api /= "binance")

\* two CoinGecko chunks, the gate rejected them, one Binance page was taken
\* and the next is due
SequentialAndPacedWitness ==
    /\ script = "grid" /\ pc = "bn_loop"
    /\ Len(yielded) = 2 /\ cg_outcome = "rejected"
    /\ pages = 1 /\ naps = <<DEFAULT_DELAY_MS>>
    /\ MsLt(start_ms, TsMs(end_dt))

\* C20: on every provider path and for any responses, the rows written
\* have strictly increasing timestamps.
OutputStrictlyIncreasing ==
    \A i \in 1..(Len(out.rows) - 1) :
        /\ (script = "grid" /\ out.provider = "coingecko") =>
              out.rows[i].time_unix_ms < out.rows[i + 1].time_unix_ms
        /\ (script = "coingecko" /\ out.provider = "coingecko") =>
              out.rows[i].ts < out.rows[i + 1].ts
        /\ out.provider = "binance" =>
              MsLt(out.rows[i].open_time, out.rows[i + 1].open_time)

\* the CoinGecko path of the fallback script wrote two bars in ascending order
OutputStrictlyIncreasingInGrid ==
    /\ script = "grid" /\ out.provider = "coingecko"
    /\ Len(out.rows) = 2
    /\ out.rows[1].time_unix_ms < out.rows[2].time_unix_ms

\* an open time t lies in the planned window: start_ms <= t < end_ms
InsideWindow(t) == MsLe(TsMs(start_dt), t) /\ MsLt(t, TsMs(end_dt))

\* C21: every bar written by a Binance run has its open time t inside the
\* planned window, start <= t < end; no bar that opens at or after end is
\* recorded.
BinanceBarsInsideWindow ==
    out.provider = "binance" =>
        \A i \in DOMAIN out.rows : InsideWindow(out.rows[i].open_time)

\* get_btcusdt_hourly.py wrote the two bars of its window, start and
\* start + 1 hour, both before end
BinanceBarsInsideWindowInBnMain ==
    /\ script = "binance" /\ pc = "done"
    /\ out.provider = "binance"
    /\ Len(out.rows) = 2
    /\ out.rows[1].open_time = TsMs(start_dt)
    /\ out.rows[2].open_time = TsMs(start_dt + 1)
    /\ start_dt + 1 < end_dt
====
